---- MODULE Spec2Model ----
(***************************************************************************)
(* Model of rosu-nps: the note-density functions of src/src/calc.rs        *)
(* (get_play_length, calculate_avg_nps, to_sec, calculate_distribution,    *)
(* calculate_by_frequency) and the interval sweep of src/src/lib.rs        *)
(* (calculate_average_notes_per_second).                                   *)
(*                                                                         *)
(* The functions compute in f64.  The model carries IEEE-754 binary64      *)
(* values exactly: a 53-bit significand, round-to-nearest-even, signed     *)
(* zeros, infinities and NaN.  Significands do not fit the model checker's *)
(* integers, so a natural number below 2^61 is held as a pair <<hi, lo>>   *)
(* that stands for hi * 2^30 + lo.  Exponents stay far inside binary64's   *)
(* normal range for the inputs of the model, so overflow to infinity and   *)
(* subnormal results never arise and are not modelled.                     *)
(***************************************************************************)
EXTENDS Integers, Sequences, FiniteSets

(***************************************************************************)
(* Naturals below 2^61 as pairs <<hi, lo>>, lo < 2^30.                     *)
(***************************************************************************)
B30 == 2^30

Pow2(k) == 2^k

\* number of bits of n, 0 <= n < 2^31
BitLen(n) ==
    IF n >= Pow2(30) THEN 31
    ELSE CHOOSE k \in 0..30 : n < Pow2(k) /\ (k = 0 \/ n >= Pow2(k - 1))

PZero == <<0, 0>>

POne == <<0, 1>>

PFromInt(n) == <<n \div B30, n % B30>>

PLt(a, b) == a[1] < b[1] \/ (a[1] = b[1] /\ a[2] < b[2])

PAdd(a, b) ==
    LET s == a[2] + b[2]
    IN  <<a[1] + b[1] + s \div B30, s % B30>>

PSub(a, b) ==
    IF a[2] >= b[2] THEN <<a[1] - b[1], a[2] - b[2]>>
    ELSE <<a[1] - b[1] - 1, (a[2] + B30) - b[2]>>

PBitLen(a) == IF a[1] > 0 THEN 30 + BitLen(a[1]) ELSE BitLen(a[2])

\* a * 2^k; the result must stay below 2^61
RECURSIVE PShl(_, _)
PShl(a, k) ==
    IF k >= 30 THEN PShl(<<a[2], 0>>, k - 30)
    ELSE <<a[1] * Pow2(k) + a[2] \div Pow2(30 - k),
           (a[2] % Pow2(30 - k)) * Pow2(k)>>

\* floor(a / 2^k)
PShr(a, k) ==
    IF k >= 61 THEN PZero
    ELSE IF k >= 30 THEN PFromInt(a[1] \div Pow2(k - 30))
    ELSE <<a[1] \div Pow2(k),
           (a[1] % Pow2(k)) * Pow2(30 - k) + a[2] \div Pow2(k)>>

\* a mod 2^k
PLow(a, k) ==
    IF k >= 61 THEN a
    ELSE IF k >= 30 THEN <<a[1] % Pow2(k - 30), a[2]>>
    ELSE <<0, a[2] % Pow2(k)>>

\* a * n for a small natural n, by doubling
RECURSIVE PMulSmall(_, _)
PMulSmall(a, n) ==
    IF n = 0 THEN PZero
    ELSE LET h == PMulSmall(a, n \div 2)
             d == PAdd(h, h)
         IN  IF n % 2 = 1 THEN PAdd(d, a) ELSE d

(***************************************************************************)
(* binary64 values.  A finite non-zero value is sgn * m * 2^e with         *)
(* 2^52 <= m < 2^53.                                                       *)
(***************************************************************************)
FNaN == [cls |-> "nan", sgn |-> 1, m |-> PZero, e |-> 0]

FInf(s) == [cls |-> "inf", sgn |-> s, m |-> PZero, e |-> 0]

FZero(s) == [cls |-> "zero", sgn |-> s, m |-> PZero, e |-> 0]

Fin(s, m, e) == [cls |-> "fin", sgn |-> s, m |-> m, e |-> e]

M52 == <<Pow2(22), 0>>

M53 == <<Pow2(23), 0>>

\* The binary64 nearest to sgn * v * 2^e (ties to even), where v = n when
\* sticky is FALSE and n < v < n + 1 when sticky is TRUE (then n has at
\* least 54 bits).
RoundPair(s, n, e, sticky) ==
    IF n = PZero THEN FZero(s)
    ELSE LET len == PBitLen(n)
         IN  IF len <= 53 THEN Fin(s, PShl(n, 53 - len), e - (53 - len))
             ELSE LET k    == len - 53
                      q    == PShr(n, k)
                      rem  == PLow(n, k)
                      half == PShl(POne, k - 1)
                      up   == IF sticky THEN ~PLt(rem, half)
                              ELSE PLt(half, rem) \/ (rem = half /\ q[2] % 2 = 1)
                      q2   == IF up THEN PAdd(q, POne) ELSE q
                  IN  IF q2 = M53 THEN Fin(s, M52, e + k + 1)
                      ELSE Fin(s, q2, e + k)

\* i32 / usize as f64 (exact below 2^31)
FromInt(n) ==
    IF n = 0 THEN FZero(1)
    ELSE IF n < 0 THEN RoundPair(-1, PFromInt(-n), 0, FALSE)
    ELSE RoundPair(1, PFromInt(n), 0, FALSE)

FNeg(a) == [a EXCEPT !.sgn = IF a.cls = "nan" THEN 1 ELSE -a.sgn]

\* |a| < |b| for finite non-zero a, b
MagLt(a, b) == a.e < b.e \/ (a.e = b.e /\ PLt(a.m, b.m))

\* a < b
FLt(a, b) ==
    IF a.cls = "nan" \/ b.cls = "nan" THEN FALSE
    ELSE IF a.cls = "zero" THEN b.cls # "zero" /\ b.sgn = 1
    ELSE IF b.cls = "zero" THEN a.sgn = -1
    ELSE IF a.sgn # b.sgn THEN a.sgn = -1
    ELSE LET lt == IF a.cls = "inf" THEN FALSE
                   ELSE IF b.cls = "inf" THEN TRUE
                   ELSE MagLt(a, b)
             gt == IF b.cls = "inf" THEN FALSE
                   ELSE IF a.cls = "inf" THEN TRUE
                   ELSE MagLt(b, a)
         IN  IF a.sgn = 1 THEN lt ELSE gt

\* a == b as f64 compares (NaN differs from itself, 0.0 == -0.0)
FEq(a, b) ==
    IF a.cls = "nan" \/ b.cls = "nan" THEN FALSE
    ELSE IF a.cls = "zero" /\ b.cls = "zero" THEN TRUE
    ELSE a = b

\* a <= b
FLe(a, b) == FLt(a, b) \/ FEq(a, b)

\* 7 * n further quotient bits of r / d (r < d), seven bits at a time:
\* <<quotient, remainder>>.  The digit estimated from the high words is the
\* true digit or one more.
RECURSIVE DivLoop(_, _, _, _)
DivLoop(q, r, d, n) ==
    IF n = 0 THEN <<q, r>>
    ELSE LET r7   == PShl(r, 7)
             est  == r7[1] \div d[1]
             over == PLt(r7, PMulSmall(d, est))
             dig  == IF over THEN est - 1 ELSE est
         IN  DivLoop(PAdd(PShl(q, 7), <<0, dig>>),
                     PSub(r7, PMulSmall(d, dig)), d, n - 1)

\* a / b
FDiv(a, b) ==
    IF a.cls = "nan" \/ b.cls = "nan" THEN FNaN
    ELSE IF a.cls = "inf" THEN (IF b.cls = "inf" THEN FNaN ELSE FInf(a.sgn * b.sgn))
    ELSE IF b.cls = "inf" THEN FZero(a.sgn * b.sgn)
    ELSE IF b.cls = "zero" THEN (IF a.cls = "zero" THEN FNaN ELSE FInf(a.sgn * b.sgn))
    ELSE IF a.cls = "zero" THEN FZero(a.sgn * b.sgn)
    ELSE LET qr == IF PLt(a.m, b.m) THEN DivLoop(PZero, a.m, b.m, 8)
                   ELSE DivLoop(POne, PSub(a.m, b.m), b.m, 8)
         IN  RoundPair(a.sgn * b.sgn, qr[1], (a.e - b.e) - 56, qr[2] # PZero)

\* floor(x * y / 2^49) and whether bits were dropped, taking y seven bits at
\* a time from the low end: <<accumulator, sticky>>
RECURSIVE MulLoop(_, _, _, _, _)
MulLoop(acc, sticky, x, y, j) ==
    IF j = 8 THEN <<acc, sticky>>
    ELSE LET c    == PLow(PShr(y, 7 * j), 7)[2]
             term == PMulSmall(x, c)
         IN  IF j = 0 THEN MulLoop(term, FALSE, x, y, 1)
             ELSE MulLoop(PAdd(PShr(acc, 7), term),
                          sticky \/ PLow(acc, 7) # PZero, x, y, j + 1)

\* a * b
FMul(a, b) ==
    IF a.cls = "nan" \/ b.cls = "nan" THEN FNaN
    ELSE IF a.cls = "inf" THEN (IF b.cls = "zero" THEN FNaN ELSE FInf(a.sgn * b.sgn))
    ELSE IF b.cls = "inf" THEN (IF a.cls = "zero" THEN FNaN ELSE FInf(a.sgn * b.sgn))
    ELSE IF a.cls = "zero" \/ b.cls = "zero" THEN FZero(a.sgn * b.sgn)
    ELSE LET p == MulLoop(PZero, FALSE, a.m, b.m, 0)
         IN  RoundPair(a.sgn * b.sgn, p[1], a.e + b.e + 49, p[2])

\* sgn * (|a| + |b|) or sgn * (|a| - |b|) for finite non-zero |a| >= |b|
MagAddSub(s, a, b, subtract) ==
    LET d      == a.e - b.e
        sh     == IF d < 7 THEN d ELSE 7
        x      == PShl(a.m, sh)
        y      == PShr(b.m, d - sh)
        sticky == PLow(b.m, d - sh) # PZero
        n      == IF ~subtract THEN PAdd(x, y)
                  ELSE IF sticky THEN PSub(PSub(x, y), POne)
                  ELSE PSub(x, y)
    IN  IF subtract /\ a.m = b.m /\ d = 0 THEN FZero(1)
        ELSE RoundPair(s, n, a.e - sh, sticky)

\* a + b
FAdd(a, b) ==
    IF a.cls = "nan" \/ b.cls = "nan" THEN FNaN
    ELSE IF a.cls = "inf"
         THEN (IF b.cls = "inf" /\ b.sgn # a.sgn THEN FNaN ELSE a)
    ELSE IF b.cls = "inf" THEN b
    ELSE IF a.cls = "zero"
         THEN (IF b.cls = "zero" THEN FZero(IF a.sgn = -1 /\ b.sgn = -1 THEN -1 ELSE 1)
               ELSE b)
    ELSE IF b.cls = "zero" THEN a
    ELSE LET big   == IF MagLt(a, b) THEN b ELSE a
             small == IF MagLt(a, b) THEN a ELSE b
         IN  MagAddSub(big.sgn, big, small, a.sgn # b.sgn)

\* a - b
FSub(a, b) == FAdd(a, FNeg(b))

\* f64::abs
FAbs(a) == [a EXCEPT !.sgn = 1]

\* f64::round: nearest integer, halves away from zero
FRound(a) ==
    IF a.cls # "fin" \/ a.e >= 0 THEN a
    ELSE LET k    == -a.e
             ip   == PShr(a.m, k)
             frac == PLow(a.m, k)
             half == IF k > 53 THEN M53 ELSE PShl(POne, k - 1)
             n    == IF PLt(frac, half) THEN ip ELSE PAdd(ip, POne)
         IN  RoundPair(a.sgn, n, 0, FALSE)

I32Max == 2147483647

I32Min == -2147483647 - 1

\* the integer part of |a| for finite |a| < 2^31
TruncMag(a) ==
    IF a.cls = "zero" THEN 0
    ELSE LET ip == PShr(a.m, -a.e)
         IN  ip[1] * B30 + ip[2]

\* finite with |a| >= 2^31
Beyond31(a) == a.cls = "fin" /\ a.e >= -21

\* `x as i32`: truncation toward zero, saturating, NaN to 0
AsI32(a) ==
    IF a.cls = "nan" THEN 0
    ELSE IF a.cls = "inf" \/ Beyond31(a) THEN (IF a.sgn = 1 THEN I32Max ELSE I32Min)
    ELSE a.sgn * TruncMag(a)

\* `x as usize`: truncation, saturating, NaN and negatives to 0.  usize::MAX
\* is 2^64 - 1; every value from 2^31 - 1 up is held as 2^31 - 1, which the
\* comparisons against vector lengths made with it cannot tell apart.
AsUsize(a) ==
    IF a.cls = "nan" THEN 0
    ELSE IF a.sgn = -1 THEN 0
    ELSE IF a.cls = "inf" \/ Beyond31(a) THEN I32Max
    ELSE TruncMag(a)

(***************************************************************************)
(* Bounds of the model.                                                    *)
(***************************************************************************)
\* start times are multiples of TimeUnit milliseconds, 0 .. MaxTick * TimeUnit
TimeUnit == 49

MaxTick == 2

\* longest sequence of hit objects / timings
MaxLen == 3

\* block counts range over -1 .. MaxBlock
MaxBlock == 4

\* frequencies are the f64 nearest p / q, p in -1 .. MaxFreqNum and
\* q in 1 .. MaxFreqDen, and a few special values
MaxFreqNum == 4

MaxFreqDen == 4

\* the interval sweep is followed for at most MaxIntervals iterations
MaxIntervals == 4

Times == {TimeUnit * k : k \in 0..MaxTick}

\* sequences of start times in non-decreasing order, the empty one included
SortedSeqs ==
    {s \in UNION {[1..n -> Times] : n \in 0..MaxLen} :
        \A i \in 1..Len(s) - 1 : s[i] <= s[i + 1]}

Blocks == -1..MaxBlock

Frequencies ==
    {FDiv(FromInt(p), FromInt(q)) : p \in -1..MaxFreqNum, q \in 1..MaxFreqDen}
        \cup {FromInt(50), FromInt(100), FInf(1), FNaN}

(***************************************************************************)
(* Results.                                                                *)
(***************************************************************************)
None == [tag |-> "None"]

Some(v) == [tag |-> "Some", val |-> v]

Ok(v) == [tag |-> "Ok", val |-> v]

Err(msg) == [tag |-> "Err", val |-> msg]

\* the call did not return: index out of bounds, arithmetic overflow
Panic == [tag |-> "Panic"]

(***************************************************************************)
(* src/src/calc.rs.  A Beatmap is modelled by the start times of its       *)
(* hit_objects, whole milliseconds held as integers and read as f64.       *)
(***************************************************************************)
get_play_length(map) ==
    IF map = <<>> THEN None
    ELSE Some(FSub(FromInt(map[Len(map)]), FromInt(map[1])))

calculate_avg_nps(map) ==
    IF map = <<>> THEN None
    ELSE LET hit == FromInt(Len(map))
         IN  Some(FDiv(hit, FDiv(get_play_length(map).val, FromInt(1000))))

\* to_sec dividing by 100
to_sec_hundredths(ms) == FDiv(ms, FromInt(100))

to_sec(ms) == FDiv(ms, FromInt(1000))

\* the precondition letting block = 0 through
invalid_block_strict(block) == block < 0

\* the precondition on the block count, line 62
invalid_block(block) == block <= 0

\* the bucket index without the clamp to block_size - 1
bucket_index_unclamped(start_time, first_note_time, inv_block_duration, block_size) ==
    AsUsize(FMul(FSub(FromInt(start_time), first_note_time), inv_block_duration))

\* lines 75-77: the bucket of one hit object
bucket_index(start_time, first_note_time, inv_block_duration, block_size) ==
    LET relative_time == FSub(FromInt(start_time), first_note_time)
        index         == AsUsize(FMul(relative_time, inv_block_duration))
    IN  IF index < block_size - 1 THEN index ELSE block_size - 1

\* line 78: counts[index] += 1, a panic when index is out of bounds.  The
\* scan carries [panic, v]: whether it has panicked, and the counts vector.
bump(counts, index) ==
    IF counts.panic \/ index < 0 \/ index >= Len(counts.v)
    THEN [panic |-> TRUE, v |-> counts.v]
    ELSE [panic |-> FALSE, v |-> [counts.v EXCEPT ![index + 1] = @ + 1]]

\* lines 70-79: the scan over hit objects i .. Len(map)
RECURSIVE scan(_, _, _, _, _)
scan(map, i, first_note_time, inv_block_duration, counts) ==
    IF i > Len(map) \/ counts.panic THEN counts
    ELSE scan(map, i + 1, first_note_time, inv_block_duration,
              bump(counts, bucket_index(map[i], first_note_time,
                                        inv_block_duration, Len(counts.v))))

\* the counts vector allocated one entry short
block_counts_short(map, block) ==
    LET first_note_time    == FromInt(map[1])
        block_duration     == FDiv(get_play_length(map).val, FromInt(block))
        inv_block_duration == FDiv(FromInt(1), block_duration)
    IN  scan(map, 1, first_note_time, inv_block_duration,
             [panic |-> FALSE, v |-> [i \in 1..block - 1 |-> 0]])

\* lines 65-79: the per-block counts after the scan
block_counts(map, block) ==
    LET play_length        == get_play_length(map).val
        first_note_time    == FromInt(map[1])
        block_duration     == FDiv(play_length, FromInt(block))
        inv_block_duration == FDiv(FromInt(1), block_duration)
    IN  scan(map, 1, first_note_time, inv_block_duration,
             [panic |-> FALSE, v |-> [i \in 1..block |-> 0]])

calculate_distribution(map, block) ==
    IF invalid_block(block) THEN None
    ELSE IF map = <<>> THEN None
    ELSE LET block_duration == FDiv(get_play_length(map).val, FromInt(block))
             counts         == block_counts(map, block)
             sec_duration   == to_sec(block_duration)
         IN  IF counts.panic THEN Panic
             ELSE Some([i \in 1..Len(counts.v) |->
                           FDiv(FromInt(counts.v[i]), sec_duration)])

\* the block count truncated instead of rounded
samples_of_truncating(frequency) == AsI32(FDiv(FromInt(1), frequency))

\* line 103: the block count of a frequency
samples_of(frequency) == AsI32(FRound(FDiv(FromInt(1), frequency)))

calculate_by_frequency(map, frequency) ==
    IF FLe(frequency, FZero(1)) THEN None
    ELSE calculate_distribution(map, samples_of(frequency))

(***************************************************************************)
(* src/src/lib.rs: the helpers of calculate_average_notes_per_second.      *)
(***************************************************************************)
\* line 164
interval_ms_of(t_duration, frequency) ==
    FDiv(FMul(FromInt(t_duration), frequency), FromInt(100))

\* slice::partition_point(|&x| x < bound) on a sorted slice
partition_point(timings, bound) ==
    Cardinality({i \in 1..Len(timings) : timings[i] < bound})

\* i32 addition: <<sum, overflowed>>; the sum wraps on overflow
add_i32(a, b) ==
    IF b > 0 /\ a > I32Max - b THEN <<((a + I32Min) + b) + I32Min, TRUE>>
    ELSE IF b < 0 /\ a < I32Min - b THEN <<((a - I32Min) + b) - I32Min, TRUE>>
    ELSE <<a + b, FALSE>>

\* usize as f64, for a difference that may have wrapped below zero
count_as_f64(n) == IF n < 0 THEN Fin(1, M52, 12) ELSE FromInt(n)

(***************************************************************************)
(* State.                                                                  *)
(***************************************************************************)
VARIABLES
    pc,                  \* "idle", "sweep" (inside the while loop of lib.rs), "done"
    op,                  \* the function that was called
    map,                 \* argument: start times of map.hit_objects
    block,               \* argument of calculate_distribution
    frequency,           \* argument of calculate_by_frequency and of lib.rs
    counts,              \* calculate_distribution: the counts vector after the scan
    ret,                 \* the value returned
    timings,             \* lib.rs argument
    interval_ms,         \* lib.rs locals
    interval_start,
    current_note_index,
    result

vars == <<pc, op, map, block, frequency, counts, ret, timings, interval_ms,
          interval_start, current_note_index, result>>

calcVars == <<map, block, counts>>

libVars == <<timings, interval_ms, interval_start, current_note_index, result>>

Init ==
    /\ pc = "idle"
    /\ op = "none"
    /\ map = <<>>
    /\ block = 0
    /\ frequency = FZero(1)
    /\ counts = <<>>
    /\ ret = None
    /\ timings = <<>>
    /\ interval_ms = FZero(1)
    /\ interval_start = 0
    /\ current_note_index = 0
    /\ result = <<>>

\* the counts vector a call of calculate_distribution leaves, <<>> when it
\* returns before allocating it
counts_after(m, b) ==
    IF invalid_block(b) \/ m = <<>> THEN <<>> ELSE block_counts(m, b).v

CallDistribution ==
    \E m \in SortedSeqs, b \in Blocks :
        /\ pc = "idle"
        /\ pc' = "done"
        /\ op' = "calculate_distribution"
        /\ map' = m
        /\ block' = b
        /\ counts' = counts_after(m, b)
        /\ ret' = calculate_distribution(m, b)
        /\ UNCHANGED <<frequency, libVars>>

CallByFrequency ==
    \E m \in SortedSeqs, f \in Frequencies :
        /\ pc = "idle"
        /\ pc' = "done"
        /\ op' = "calculate_by_frequency"
        /\ map' = m
        /\ frequency' = f
        /\ block' = IF FLe(f, FZero(1)) THEN 0 ELSE samples_of(f)
        /\ counts' = IF FLe(f, FZero(1)) THEN <<>> ELSE counts_after(m, samples_of(f))
        /\ ret' = calculate_by_frequency(m, f)
        /\ UNCHANGED libVars

CallAvgNps ==
    \E m \in SortedSeqs :
        /\ pc = "idle"
        /\ pc' = "done"
        /\ op' = "calculate_avg_nps"
        /\ map' = m
        /\ ret' = calculate_avg_nps(m)
        /\ UNCHANGED <<block, frequency, counts, libVars>>

\* lib.rs lines 157-172: the checks and the loop's initial state
SweepStart ==
    \E t \in SortedSeqs, f \in Frequencies :
        /\ pc = "idle"
        /\ op' = "calculate_average_notes_per_second"
        /\ timings' = t
        /\ frequency' = f
        /\ IF t = <<>>
           THEN /\ pc' = "done"
                /\ ret' = Err("The timings vector is empty.")
                /\ UNCHANGED <<interval_ms, interval_start, current_note_index, result>>
           ELSE LET start_time == t[1]
                    end_time   == t[Len(t)]
                    t_duration == end_time - start_time
                    ms         == interval_ms_of(t_duration, f)
                IN  /\ interval_ms' = ms
                    /\ IF FLe(ms, FZero(1))
                       THEN /\ pc' = "done"
                            /\ ret' = Err("Invalid duration or frequency is too high.")
                            /\ UNCHANGED <<interval_start, current_note_index, result>>
                       ELSE /\ pc' = "sweep"
                            /\ ret' = None
                            /\ interval_start' = start_time
                            /\ current_note_index' = 0
                            /\ result' = <<>>
        /\ UNCHANGED calcVars

\* lib.rs lines 174-189: one iteration of the while loop.  An i32 overflow of
\* interval_start + interval_ms as i32, or a usize underflow of the note
\* count, panics in a build with overflow checks and wraps in one without.
SweepStep ==
    /\ pc = "sweep"
    /\ interval_start < timings[Len(timings)]
    /\ Len(result) < MaxIntervals
    /\ LET sum                == add_i32(interval_start, AsI32(interval_ms))
           interval_end       == sum[1]
           interval_end_index == partition_point(timings, interval_end)
           note_count         == interval_end_index - current_note_index
           interval_seconds   == FDiv(interval_ms, FromInt(1000))
           nps                == FDiv(count_as_f64(note_count), interval_seconds)
       IN  \/ /\ sum[2] \/ note_count < 0
              /\ pc' = "done"
              /\ ret' = Panic
              /\ UNCHANGED <<interval_start, current_note_index, result>>
           \/ /\ pc' = "sweep"
              /\ result' = Append(result, [key |-> interval_start, value |-> nps])
              /\ interval_start' = interval_end
              /\ current_note_index' = interval_end_index
              /\ ret' = ret
    /\ UNCHANGED <<op, frequency, timings, interval_ms, calcVars>>

\* lib.rs line 191: the loop condition fails and the function returns
SweepReturn ==
    /\ pc = "sweep"
    /\ ~(interval_start < timings[Len(timings)])
    /\ pc' = "done"
    /\ ret' = Ok(result)
    /\ UNCHANGED <<op, frequency, calcVars, libVars>>

Next ==
    \/ CallDistribution
    \/ CallByFrequency
    \/ CallAvgNps
    \/ SweepStart
    \/ SweepStep
    \/ SweepReturn

Spec == Init /\ [][Next]_vars

(***************************************************************************)
(* Vocabulary of the properties.                                           *)
(***************************************************************************)
Returned(o) == pc = "done" /\ op = o

\* last start time minus first start time, in whole milliseconds
Duration(m) == m[Len(m)] - m[1]

RECURSIVE SumSeq(_)
SumSeq(s) == IF s = <<>> THEN 0 ELSE s[1] + SumSeq(Tail(s))

\* iter().sum() over f64: a left fold from 0.0
RECURSIVE FSum(_)
FSum(s) == IF s = <<>> THEN FZero(1) ELSE FAdd(FSum(SubSeq(s, 1, Len(s) - 1)), s[Len(s)])

\* a call of calculate_distribution on a non-empty map with block > 0
ValidDistributionCall ==
    Returned("calculate_distribution") /\ map # <<>> /\ block > 0

(***************************************************************************)
(* C1.  For every non-empty sorted event sequence and every block > 0,     *)
(* calculate_distribution returns a distribution with exactly block        *)
(* entries, also when all events share one timestamp.                      *)
(***************************************************************************)
C1_BlockEntries ==
    ValidDistributionCall => ret.tag = "Some" /\ Len(ret.val) = block

\* several events at one instant, several blocks
C1_Witness ==
    /\ ValidDistributionCall
    /\ Len(map) >= 2
    /\ Duration(map) = 0
    /\ block >= 2
    /\ ret.tag = "Some"
    /\ Len(ret.val) = block

(***************************************************************************)
(* C2.  calculate_distribution returns None whenever block <= 0 or the     *)
(* event sequence is empty, returns Some(distribution) for every other     *)
(* input, and never panics.                                                *)
(***************************************************************************)
C2_NoneIffInvalid ==
    Returned("calculate_distribution") =>
        IF block <= 0 \/ map = <<>> THEN ret = None ELSE ret.tag = "Some"

\* block = 0 on a non-empty map
C2_Witness ==
    /\ Returned("calculate_distribution")
    /\ block = 0
    /\ map # <<>>
    /\ ret = None

(***************************************************************************)
(* C3.  calculate_by_frequency returns None if and only if frequency <= 0  *)
(* or the map has no events: every frequency <= 0 yields None and every    *)
(* frequency > 0 on a non-empty sequence yields Some(distribution).        *)
(***************************************************************************)
\* stated for the frequencies that are numbers; +infinity and NaN aside
C3_NoneIffNonPositive ==
    Returned("calculate_by_frequency") /\ frequency.cls \in {"fin", "zero"} =>
        /\ FLe(frequency, FZero(1)) \/ map = <<>> => ret = None
        /\ FLt(FZero(1), frequency) /\ map # <<>> => ret.tag = "Some"

(***************************************************************************)
(* C4.  For every event sequence and every frequency f > 0,                *)
(* calculate_by_frequency(map, f) returns exactly what                     *)
(* calculate_distribution(map, k) returns, k the integer nearest to 1 / f. *)
(***************************************************************************)
\* the integer nearest to x >= 0, a half going up: 2k - 1 <= 2x < 2k + 1
NearestInteger(x) ==
    CHOOSE k \in 0..(MaxFreqDen + 1) :
        /\ FLe(FromInt(2 * k - 1), FAdd(x, x))
        /\ FLt(FAdd(x, x), FromInt(2 * k + 1))

C5_SumIsAverage ==
    ValidDistributionCall /\ Duration(map) > 0 =>
        /\ ret.tag = "Some"
        /\ FLt(FAbs(FSub(FDiv(FSum(ret.val), FromInt(block)),
                         calculate_avg_nps(map).val)),
               FDiv(FromInt(1), FromInt(10)))
        /\ SumSeq(counts) * 1000 * block = Len(map) * 1000 * block

\* the test's block count on three events
C5_Witness ==
    /\ ValidDistributionCall
    /\ Duration(map) > 0
    /\ Len(map) = 3
    /\ block = 4
    /\ ret.tag = "Some"

(***************************************************************************)
(* C6.  In calculate_distribution every event is assigned to exactly one   *)
(* bucket whose index lies in 0 .. block - 1: no index is out of range     *)
(* (the scan does not panic) and after the scan the counts sum to the      *)
(* number of events, also with an event on a bucket seam and with the last *)
(* event at the map's end time.                                            *)
(***************************************************************************)
C6_EachEventOnce ==
    ValidDistributionCall =>
        /\ ret # Panic
        /\ Len(counts) = block
        /\ \A i \in 1..block : counts[i] >= 0
        /\ SumSeq(counts) = Len(map)

\* an inner event exactly on a seam between two buckets
C6_Witness ==
    /\ ValidDistributionCall
    /\ Duration(map) > 0
    /\ block >= 2
    /\ \E j \in 2..Len(map) - 1 :
          /\ map[j] > map[1]
          /\ map[j] < map[Len(map)]
          /\ ((map[j] - map[1]) * block) % Duration(map) = 0
    /\ SumSeq(counts) = Len(map)

(***************************************************************************)
(* C7.  On a non-empty sequence of degenerate duration (last - first <= 0) *)
(* calculate_distribution with block > 0 returns block zeros, never an     *)
(* infinite or not-a-number entry.                                         *)
(***************************************************************************)
C7_DegenerateIsZeros ==
    ValidDistributionCall /\ Duration(map) <= 0 =>
        ret = Some([i \in 1..block |-> FZero(1)])

(***************************************************************************)
(* C8.  calculate_avg_nps returns None for an empty sequence, the event    *)
(* count divided by (last - first) / 1000 for positive duration, and the   *)
(* raw event count when the duration is <= 0.                              *)
(***************************************************************************)
C8_AverageNps ==
    Returned("calculate_avg_nps") =>
        IF map = <<>> THEN ret = None
        ELSE IF Duration(map) > 0
             THEN ret = Some(FDiv(FromInt(Len(map)),
                                  FDiv(FromInt(Duration(map)), FromInt(1000))))
             ELSE ret = Some(FromInt(Len(map)))

(***************************************************************************)
(* C9.  For a non-empty sorted sequence of positive duration and           *)
(* block > 0, with width = duration / block, the bucket of an event at t   *)
(* is min(floor((t - first) / width), block - 1): bucket i holds the       *)
(* events with first + i * width <= t < first + (i + 1) * width, the last  *)
(* bucket those up to and including the last event, and each entry is      *)
(* that count divided by width in seconds.                                 *)
(***************************************************************************)
\* floor((t - first) / (duration / block)) is floor((t - first) * block / duration)
HalfOpenBucket(m, b, t) ==
    LET i == ((t - m[1]) * b) \div Duration(m)
    IN  IF i < b - 1 THEN i ELSE b - 1

HalfOpenCount(m, b, i) ==
    Cardinality({j \in 1..Len(m) : HalfOpenBucket(m, b, m[j]) = i})

C9_HalfOpenBuckets ==
    ValidDistributionCall /\ Duration(map) > 0 =>
        /\ ret.tag = "Some"
        /\ \A i \in 1..block :
              /\ counts[i] = HalfOpenCount(map, block, i - 1)
              /\ ret.val[i] =
                    FDiv(FromInt(HalfOpenCount(map, block, i - 1)),
                         FDiv(FDiv(FromInt(Duration(map)), FromInt(block)),
                              FromInt(1000)))

(***************************************************************************)
(* C10.  calculate_average_notes_per_second always terminates: once        *)
(* interval_ms > 0 has passed the check, the interval sweep advances       *)
(* interval_start strictly on each iteration until it reaches end_time.    *)
(***************************************************************************)
\* stated for a finite interval_ms > 0; +infinity and NaN aside
C10_SweepAdvances ==
    [][pc = "sweep" /\ pc' = "sweep"
         /\ interval_ms.cls = "fin" /\ FLt(FZero(1), interval_ms)
       => interval_start' > interval_start]_vars

(***************************************************************************)
(* C11.  Whenever calculate_average_notes_per_second returns Ok, every     *)
(* timing is counted in exactly one emitted interval and the final timing  *)
(* at end_time is not dropped: the keys start at the first timing and      *)
(* increase strictly, the note count of each interval is the number of     *)
(* timings in [interval_start, interval_end), never negative, and the note *)
(* counts of the returned intervals sum to timings.len().                  *)
(***************************************************************************)
\* the end of the i-th returned interval: the key of the next one, and for
\* the last one the value interval_start has when the loop exits
IntervalEnd(i) ==
    IF i < Len(ret.val) THEN ret.val[i + 1].key ELSE interval_start

\* the number of timings t with lo <= t < hi
NotesIn(lo, hi) ==
    Cardinality({j \in 1..Len(timings) : lo <= timings[j] /\ timings[j] < hi})

\* stated for a finite interval_ms; +infinity and NaN aside
C11_EveryTimingCounted ==
    /\ Returned("calculate_average_notes_per_second")
    /\ ret.tag = "Ok"
    /\ interval_ms.cls = "fin"
    => /\ ret.val # <<>> => ret.val[1].key = timings[1]
       /\ \A i \in 1..Len(ret.val) :
             /\ ret.val[i].key < IntervalEnd(i)
             /\ ret.val[i].value =
                   FDiv(FromInt(NotesIn(ret.val[i].key, IntervalEnd(i))),
                        FDiv(interval_ms, FromInt(1000)))
       /\ SumSeq([i \in 1..Len(ret.val) |->
                     NotesIn(ret.val[i].key, IntervalEnd(i))]) = Len(timings)

====
